---- MODULE Spec2Model ----
(***************************************************************************)
(* Model of github.com/subranag/parti: the even splitter (splits.go), the  *)
(* Partition / PartitionMap types with validation, JSON encoding and key   *)
(* resolution (partition.go) and the hash ranges (hashes.go).              *)
(*                                                                         *)
(* *big.Int values are TLA+ integers.  A Go pointer that is nil is a       *)
(* record field that is absent (a Partition literal that does not set      *)
(* lowerBound has no "lowerBound" in its DOMAIN); a nil *Partition is      *)
(* NilPartition.  Strings are sequences of one-character strings, so that  *)
(* formatting, trimming and parsing are computed character by character.   *)
(***************************************************************************)
EXTENDS Integers, Sequences, FiniteSets, TLC

VARIABLES
    program,     \* which program runs: a driver of Split, of NewPartitionMap, of the
                 \* JSON codec (as the mains of app/main.go), or goroutines
                 \* resolving keys on maps already built
    last,        \* the driver's locals: the last call, its arguments and what it returned
    pmap,        \* map id -> the *PartitionMap the resolving program built (or NilMap)
    digest,      \* hash range id -> the bytes written to its hash.Hash since the last Reset
    hashMu,      \* map id -> the goroutine holding pm.hashMu (or NoThread)
    pc,          \* goroutine -> where it is inside ResolvePartition / keyHash
    call         \* goroutine -> locals of its ResolvePartition call: pm, key, hash, ret

vars == <<program, last, pmap, digest, hashMu, pc, call>>

---------------------------------------------------------------------------
(* Bounds of the model *)

\* source partitions have lowerBound in -MaxNeg..MaxLower and upperBound in -MaxNeg..MaxUpper
MaxNeg == 1
MaxLower == 1
MaxUpper == 9
\* numSplits ranges over -1..MaxSplits
MaxSplits == 5
\* goroutines calling ResolvePartition
MaxThreads == 2

---------------------------------------------------------------------------
(* Errors (partition.go:15-38).  The nil error is NoError. *)

NoError == [type |-> "nil"]
PartitionNilError == [type |-> "PartitionNilError"]
InvalidNumSplits == [type |-> "InvalidNumSplits"]
InvalidKey == [type |-> "InvalidKey"]
invalidPartition(reason) == [type |-> "InvalidPartitionError", reason |-> reason]

BigOne == 1
BigZero == 0

NilPartition == [nil |-> TRUE]
IsNilPartition(p) == "nil" \in DOMAIN p

---------------------------------------------------------------------------
(* math/big text conversion and fmt's %d, as the code uses them *)

LowerDigits == <<"0", "1", "2", "3", "4", "5", "6", "7", "8", "9",
                 "a", "b", "c", "d", "e", "f">>
UpperDigits == <<"0", "1", "2", "3", "4", "5", "6", "7", "8", "9",
                 "A", "B", "C", "D", "E", "F">>

RECURSIVE NatText(_, _)
NatText(n, base) ==
    IF n < base THEN <<LowerDigits[n + 1]>>
    ELSE NatText(n \div base, base) \o <<LowerDigits[(n % base) + 1]>>

\* (*big.Int).Text(base) and String() (base 10): sign, then digits, lowercase
BigText(v, base) ==
    IF v < 0 THEN <<"-">> \o NatText(-v, base) ELSE NatText(v, base)

IsDigit(c, base) ==
    \E d \in 1..base : LowerDigits[d] = c \/ UpperDigits[d] = c

DigitVal(c, base) ==
    (CHOOSE d \in 1..base : LowerDigits[d] = c \/ UpperDigits[d] = c) - 1

RECURSIVE NatParse(_, _, _)
NatParse(s, base, acc) ==
    IF s = <<>> THEN acc
    ELSE NatParse(Tail(s), base, acc * base + DigitVal(Head(s), base))

\* (*big.Int).SetString(s, base): an optional sign, then one or more digits of
\* the base and nothing else; ok is FALSE otherwise
BigSetString(s, base) ==
    LET signed == s # <<>> /\ Head(s) \in {"+", "-"}
        body == IF signed THEN Tail(s) ELSE s
    IN  IF body = <<>> \/ \E i \in 1..Len(body) : ~IsDigit(body[i], base)
        THEN [ok |-> FALSE, v |-> 0]
        ELSE [ok |-> TRUE,
              v |-> IF signed /\ Head(s) = "-"
                    THEN -NatParse(body, base, 0)
                    ELSE NatParse(body, base, 0)]

\* a mutation of SprintfLabel: the index is left out of the label
SprintfLabelNoIndex(label, i) == label \o <<"-">>

\* fmt.Sprintf("%s-%d", label, i)
SprintfLabel(label, i) == label \o <<"-">> \o BigText(i, 10)

\* strings.Trim(s, " "): leading and trailing spaces removed, nothing else
RECURSIVE TrimLeft(_)
TrimLeft(s) == IF s # <<>> /\ Head(s) = " " THEN TrimLeft(Tail(s)) ELSE s

RECURSIVE TrimRight(_)
TrimRight(s) ==
    IF s # <<>> /\ s[Len(s)] = " " THEN TrimRight(SubSeq(s, 1, Len(s) - 1)) ELSE s

Trim(s) == TrimRight(TrimLeft(s))

---------------------------------------------------------------------------
(* validatePartition (partition.go:106-125) *)

\* a mutation of validatePartition: the label is not looked at
validatePartitionAnyLabel(p) ==
    IF IsNilPartition(p) THEN PartitionNilError
    ELSE IF "lowerBound" \notin DOMAIN p \/ "upperBound" \notin DOMAIN p
    THEN invalidPartition("neither partition LowerBound nor UpperBound cannot be nil")
    ELSE IF p.lowerBound >= p.upperBound
    THEN invalidPartition("partition LowerBound should be strictly less than UpperBound: LowerBound < UpperBound")
    ELSE NoError

validatePartition(p) ==
    IF IsNilPartition(p) THEN PartitionNilError
    ELSE IF "lowerBound" \notin DOMAIN p \/ "upperBound" \notin DOMAIN p
    THEN invalidPartition("neither partition LowerBound nor UpperBound cannot be nil")
    ELSE IF p.lowerBound >= p.upperBound
    THEN invalidPartition("partition LowerBound should be strictly less than UpperBound: LowerBound < UpperBound")
    ELSE IF p.label = <<>> \/ Trim(p.label) = <<>>
    THEN invalidPartition("partition label can be whitespaces/empty")
    ELSE NoError

---------------------------------------------------------------------------
(* evenSplitter.Split (splits.go:21-93) *)

\* a mutation of setUpperBoundAndCarry: the carry is added but leftOver is not decremented
setUpperBoundKeepLeftOver(base, step, leftOver) ==
    [ub |-> base + step + (IF leftOver > BigZero THEN BigOne ELSE 0),
     leftOver |-> leftOver]

\* returns the new upper bound and leftOver, which the code decrements in place
setUpperBoundAndCarry(base, step, leftOver) ==
    LET ub == base + step
        carry == leftOver > BigZero
    IN  [ub |-> IF carry THEN ub + BigOne ELSE ub,
         leftOver |-> IF carry THEN leftOver - BigOne ELSE leftOver]

\* a mutation of newLowerBound: the next partition starts at the previous upper bound
newLowerBoundOverlap(p, first, prevUpperBound) ==
    IF first THEN BigSetString(BigText(p.lowerBound, 10), 10).v
    ELSE prevUpperBound

\* splits.go:58-66: lb of the partition being built
newLowerBound(p, first, prevUpperBound) ==
    IF first THEN BigSetString(BigText(p.lowerBound, 10), 10).v
    ELSE prevUpperBound + BigOne

\* the for loop of splits.go:54-73; first is prevUpperBound == nil
RECURSIVE SplitLoop(_, _, _, _, _, _, _, _)
SplitLoop(p, numSplits, i, first, prevUpperBound, step, leftOver, result) ==
    IF ~(i < numSplits) THEN result
    ELSE LET label == SprintfLabel(p.label, i)
             lb == newLowerBound(p, first, prevUpperBound)
             prev == IF first THEN lb ELSE prevUpperBound
             uc == setUpperBoundAndCarry(prev, step, leftOver)
             newPart == [label |-> label, lowerBound |-> lb, upperBound |-> uc.ub]
         IN  SplitLoop(p, numSplits, i + 1, FALSE, newPart.upperBound, step,
                       uc.leftOver, Append(result, newPart))

\* result is <<>> for the nil slice; panicked is the panic of splits.go:46-49
Split(p, numSplits) ==
    IF IsNilPartition(p)
    THEN [result |-> <<>>, err |-> PartitionNilError, panicked |-> FALSE]
    ELSE IF numSplits <= 1
    THEN [result |-> <<>>, err |-> InvalidNumSplits, panicked |-> FALSE]
    ELSE IF validatePartition(p) # NoError
    THEN [result |-> <<>>, err |-> validatePartition(p), panicked |-> FALSE]
    ELSE LET delta == p.upperBound - p.lowerBound
             step == delta \div numSplits
             leftOver == delta % numSplits
         IN  IF leftOver >= numSplits
             THEN [result |-> <<>>, err |-> NoError, panicked |-> TRUE]
             ELSE [result |-> SplitLoop(p, numSplits, 0, TRUE, 0, step, leftOver, <<>>),
                   err |-> NoError, panicked |-> FALSE]

---------------------------------------------------------------------------
(* Hash ranges (hashes.go).  The model scales a byte down to one hexadecimal   *)
(* digit (values 0..15), so that the MD5 range is 0..0xff and the SHA256 range *)
(* 0..0xfff; Size is the number of such bytes a Sum has.                       *)

\* one hexadecimal digit per (scaled) byte
ByteBase == Len(LowerDigits)

RECURSIVE Pow(_, _)
Pow(b, e) == IF e = 0 THEN 1 ELSE b * Pow(b, e - 1)

\* newMD5HashRange (hashes.go:38-45)
newMD5HashRange ==
    [name |-> "MD5", Size |-> 2, lowerBound |-> 0,
     upperBound |-> BigSetString(<<"f", "f">>, 16).v]

\* newSHA256HashRange (hashes.go:74-81)
newSHA256HashRange ==
    [name |-> "SHA256", Size |-> 3, lowerBound |-> 0,
     upperBound |-> BigSetString(<<"f", "f", "f">>, 16).v]

\* the HashRange instances of a run, by id
HashIds == {"md5", "sha256"}
HashRangeOf(h) == IF h = "md5" THEN newMD5HashRange ELSE newSHA256HashRange

LowerBound(h) == HashRangeOf(h).lowerBound
UpperBound(h) == HashRangeOf(h).upperBound

\* the value of the embedded hash.Hash after the bytes buf were written to it
\* from the initial value acc: a stand-in for the compression function, a fixed
\* function of all of buf
RECURSIVE Mix(_, _, _)
Mix(buf, acc, modulus) ==
    IF buf = <<>> THEN acc
    ELSE Mix(Tail(buf), (acc * 7 + Head(buf) + 3) % modulus, modulus)

\* v as size big-endian bytes
RECURSIVE BytesOf(_, _)
BytesOf(v, size) ==
    IF size = 0 THEN <<>>
    ELSE Append(BytesOf(v \div ByteBase, size - 1), v % ByteBase)

\* hash.Hash.Sum(nil) of the hash range h whose state is buf
Sum(h, buf) ==
    BytesOf(Mix(buf, HashRangeOf(h).Size, Pow(ByteBase, HashRangeOf(h).Size)),
            HashRangeOf(h).Size)

\* (*big.Int).SetBytes: the bytes as a big-endian unsigned integer
RECURSIVE SetBytes(_, _)
SetBytes(bytes, acc) ==
    IF bytes = <<>> THEN acc
    ELSE SetBytes(Tail(bytes), acc * ByteBase + Head(bytes))

---------------------------------------------------------------------------
(* PartitionMap (partition.go:131-240) *)

NilMap == [nil |-> TRUE]
IsNilMap(pm) == "nil" \in DOMAIN pm

\* the less function of partition.go:181-183 and 188-190
Less(parts, i, j) == parts[i].lowerBound < parts[j].lowerBound

\* sort.SliceIsSorted: no element is less than the one before it
SliceIsSorted(parts) ==
    \A i \in 2..Len(parts) : ~Less(parts, i, i - 1)

\* sort.Slice, as an insertion sort by the less function
RECURSIVE InsertSorted(_, _)
InsertSorted(sorted, x) ==
    IF sorted = <<>> THEN <<x>>
    ELSE IF x.lowerBound < Head(sorted).lowerBound THEN <<x>> \o sorted
    ELSE <<Head(sorted)>> \o InsertSorted(Tail(sorted), x)

RECURSIVE SortSlice(_)
SortSlice(parts) ==
    IF parts = <<>> THEN <<>>
    ELSE InsertSorted(SortSlice(SubSeq(parts, 1, Len(parts) - 1)), parts[Len(parts)])

\* a mutation of sortPartitions: the slice is put in descending order
sortPartitionsReversed(parts) ==
    [i \in 1..Len(parts) |-> SortSlice(parts)[Len(parts) + 1 - i]]

\* PartitionMap.sortPartitions (partition.go:180-192): pm.Partitions afterwards;
\* sortMu is taken and released inside the call
sortPartitions(parts) ==
    IF ~SliceIsSorted(parts) THEN SortSlice(parts) ELSE parts

\* the loop of partition.go:233-236: keyMap[v.label] = v for each split in order
RECURSIVE buildKeyMap(_, _, _)
buildKeyMap(splits, i, keyMap) ==
    IF i > Len(splits) THEN keyMap
    ELSE buildKeyMap(splits, i + 1,
            [l \in DOMAIN keyMap \cup {splits[i].label} |->
                IF l = splits[i].label THEN splits[i] ELSE keyMap[l]])

\* a mutation of NewPartitionMap: a failed split still yields a (partial) map
NewPartitionMapPartial(h, name, partLabelPrefix, numSplits) ==
    LET root == [label |-> partLabelPrefix, lowerBound |-> LowerBound(h),
                 upperBound |-> UpperBound(h)]
        s == Split(root, numSplits)
    IN  [pm |-> [Name |-> name, Partitions |-> s.result, Range |-> h,
                 keyMap |-> buildKeyMap(s.result, 1, <<>>)],
         err |-> s.err, panicked |-> s.panicked]

\* NewPartitionMap (partition.go:219-240); h is the id of the HashRange passed
NewPartitionMap(h, name, partLabelPrefix, numSplits) ==
    LET root == [label |-> partLabelPrefix, lowerBound |-> LowerBound(h),
                 upperBound |-> UpperBound(h)]
        s == Split(root, numSplits)
    IN  IF s.panicked THEN [pm |-> NilMap, err |-> NoError, panicked |-> TRUE]
        ELSE IF s.err # NoError THEN [pm |-> NilMap, err |-> s.err, panicked |-> FALSE]
        ELSE [pm |-> [Name |-> name,
                      Partitions |-> sortPartitions(s.result),
                      Range |-> h,
                      keyMap |-> buildKeyMap(s.result, 1, <<>>)],
              err |-> NoError, panicked |-> FALSE]

---------------------------------------------------------------------------
(* Partition.MarshalJSON / UnmarshalJSON (partition.go:77-104) *)

Quote == "\""
KeyLabel == <<"l", "a", "b", "e", "l">>
KeyLowerBound == <<"l", "o", "w", "e", "r", "_", "b", "o", "u", "n", "d">>
KeyUpperBound == <<"u", "p", "p", "e", "r", "_", "b", "o", "u", "n", "d">>

\* fmt.Sprintf("\"%v\":\"%v\"", k, v)
SprintfMember(k, v) == <<Quote>> \o k \o <<Quote, ":", Quote>> \o v \o <<Quote>>

MarshalJSON(p) ==
    <<"{">> \o SprintfMember(KeyLabel, p.label) \o <<",">>
            \o SprintfMember(KeyLowerBound, BigText(p.lowerBound, 16)) \o <<",">>
            \o SprintfMember(KeyUpperBound, BigText(p.upperBound, 16))
            \o <<"}">>

\* encoding/json reading a JSON string at b[i]: the characters up to the closing
\* quote; a control character, a quote or a backslash cannot stand in it unescaped
RECURSIVE ScanString(_, _, _)
ScanString(b, i, acc) ==
    IF i > Len(b) THEN [ok |-> FALSE, s |-> acc, next |-> i]
    ELSE IF b[i] = Quote THEN [ok |-> TRUE, s |-> acc, next |-> i + 1]
    ELSE IF b[i] \in {"\t", "\\"} THEN [ok |-> FALSE, s |-> acc, next |-> i]
    ELSE ScanString(b, i + 1, Append(acc, b[i]))

JsonString(b, i) ==
    IF i > Len(b) \/ b[i] # Quote THEN [ok |-> FALSE, s |-> <<>>, next |-> i]
    ELSE ScanString(b, i + 1, <<>>)

\* the members "k":"v",... of an object up to its closing brace, which ends b
RECURSIVE JsonMembers(_, _, _)
JsonMembers(b, i, fields) ==
    LET k == JsonString(b, i)
        v == JsonString(b, k.next + 1)
        got == [l \in DOMAIN fields \cup {k.s} |-> IF l = k.s THEN v.s ELSE fields[l]]
    IN  IF ~k.ok \/ k.next > Len(b) \/ b[k.next] # ":" \/ ~v.ok \/ v.next > Len(b)
        THEN [ok |-> FALSE, fields |-> fields]
        ELSE IF b[v.next] = "," THEN JsonMembers(b, v.next + 1, got)
        ELSE IF b[v.next] = "}" /\ v.next = Len(b) THEN [ok |-> TRUE, fields |-> got]
        ELSE [ok |-> FALSE, fields |-> fields]

JsonObject(b) ==
    IF Len(b) < 2 \/ b[1] # "{" THEN [ok |-> FALSE, fields |-> <<>>]
    ELSE IF b = <<"{", "}">> THEN [ok |-> TRUE, fields |-> <<>>]
    ELSE JsonMembers(b, 2, <<>>)

SyntaxError == [type |-> "json.SyntaxError"]
InvalidUnmarshalError == [type |-> "json.InvalidUnmarshalError"]

\* json.Unmarshal(b, v) for v a map[string]string (isPointer FALSE) or a pointer
\* to one: the text is checked first, then v must be a non-nil pointer
JsonUnmarshal(b, isPointer, pdata) ==
    IF ~JsonObject(b).ok THEN [err |-> SyntaxError, pdata |-> pdata]
    ELSE IF ~isPointer THEN [err |-> InvalidUnmarshalError, pdata |-> pdata]
    ELSE [err |-> NoError, pdata |-> JsonObject(b).fields]

\* pdata[k] of a Go map: the zero value "" for a missing key
MapGet(pdata, k) == IF k \in DOMAIN pdata THEN pdata[k] ELSE <<>>

\* UnmarshalJSON on the receiver p: the error returned and p afterwards.
\* pdata is passed to json.Unmarshal by value (partition.go:88)
UnmarshalJSON(p, b) ==
    LET r == JsonUnmarshal(b, FALSE, <<>>)
        lb == BigSetString(MapGet(r.pdata, KeyLowerBound), 16)
        ub == BigSetString(MapGet(r.pdata, KeyUpperBound), 16)
        label == MapGet(r.pdata, KeyLabel)
    IN  IF r.err # NoError THEN [err |-> r.err, p |-> p]
        ELSE IF ~lb.ok
        THEN [err |-> invalidPartition("invalid lower bound"),
              p |-> [f \in DOMAIN p \cup {"label"} |-> IF f = "label" THEN label ELSE p[f]]]
        ELSE IF ~ub.ok
        THEN [err |-> invalidPartition("invalid upper bound"),
              p |-> [f \in DOMAIN p \cup {"label", "lowerBound"} |->
                        IF f = "label" THEN label
                        ELSE IF f = "lowerBound" THEN lb.v ELSE p[f]]]
        ELSE [err |-> NoError,
              p |-> [label |-> label, lowerBound |-> lb.v, upperBound |-> ub.v]]

---------------------------------------------------------------------------
(* Inputs *)

Labels == {<<>>, <<" ">>, <<" ", " ">>, <<"\t">>, <<"p">>, <<" ", "q">>}

\* partitions with both bounds set
BoundedPartitions ==
    {[label |-> l, lowerBound |-> lo, upperBound |-> up] :
        l \in Labels, lo \in (-MaxNeg)..MaxLower, up \in (-MaxNeg)..MaxUpper}

\* partitions with a nil bound
UnboundedPartitions ==
    {[label |-> <<"p">>]}
    \cup {[label |-> <<"p">>, lowerBound |-> lo] : lo \in (-MaxNeg)..MaxLower}
    \cup {[label |-> <<"p">>, upperBound |-> up] : up \in (-MaxNeg)..MaxUpper}

\* the interval [0, 255] of the 4-way example
ExampleSource == [label |-> <<"p">>, lowerBound |-> 0, upperBound |-> 255]

SourcePartitions ==
    BoundedPartitions \cup UnboundedPartitions \cup {NilPartition, ExampleSource}

NumSplits == (-1)..MaxSplits

Keys == {<<>>, <<1>>, <<2>>, <<1, 2>>}

Threads == 1..MaxThreads
MapIds == {"m1", "m2"}
Programs == {"split", "newmap", "json", "resolve"}

---------------------------------------------------------------------------
(* The drivers: each run makes its call once (as the mains of app/main.go do) *)
(* and keeps the arguments and what was returned in last                     *)

CallSplit(p, numSplits) ==
    /\ program = "split"
    /\ last.op = "none"
    /\ LET r == Split(p, numSplits)
       IN  last' = [op |-> "Split", p |-> p, numSplits |-> numSplits,
                    splits |-> r.result, err |-> r.err, panicked |-> r.panicked]
    /\ UNCHANGED <<program, pmap, digest, hashMu, pc, call>>

CallNewPartitionMap(h, name, partLabelPrefix, numSplits) ==
    /\ program = "newmap"
    /\ last.op = "none"
    /\ LET r == NewPartitionMap(h, name, partLabelPrefix, numSplits)
       IN  last' = [op |-> "NewPartitionMap", h |-> h, name |-> name,
                    partLabelPrefix |-> partLabelPrefix, numSplits |-> numSplits,
                    pm |-> r.pm, err |-> r.err, panicked |-> r.panicked]
    /\ UNCHANGED <<program, pmap, digest, hashMu, pc, call>>

CallMarshalJSON(p) ==
    /\ program = "json"
    /\ last.op = "none"
    /\ last' = [op |-> "MarshalJSON", p |-> p, b |-> MarshalJSON(p)]
    /\ UNCHANGED <<program, pmap, digest, hashMu, pc, call>>

\* UnmarshalJSON of the bytes just marshalled, on a new(Partition)
CallUnmarshalJSON ==
    /\ program = "json"
    /\ last.op = "MarshalJSON"
    /\ LET r == UnmarshalJSON([label |-> <<>>], last.b)
       IN  last' = [op |-> "UnmarshalJSON", p |-> last.p, b |-> last.b,
                    q |-> r.p, err |-> r.err]
    /\ UNCHANGED <<program, pmap, digest, hashMu, pc, call>>

---------------------------------------------------------------------------
(* PartitionMap.ResolvePartition and keyHash (partition.go:159-178), a step *)
(* at a time, for goroutine t                                                *)

IdleCall == [pm |-> "none", key |-> <<>>, hash |-> 0, printed |-> <<>>,
             part |-> NilPartition, err |-> NoError]

RangeOf(t) == pmap[call[t].pm].Range

\* a mutation of MutexFree: Lock never waits
MutexFreeAlways(m) == TRUE

\* sync.Mutex.Lock proceeds when the mutex is not held
MutexFree(m) == ~hashMu[m]

\* partition.go:159-162: the key check; an empty key returns (nil, InvalidKey)
ResolvePartition(t, m, key) ==
    /\ program = "resolve"
    /\ pc[t] \in {"idle", "done"}
    /\ ~IsNilMap(pmap[m])
    /\ IF Len(key) = 0
       THEN /\ pc' = [pc EXCEPT ![t] = "done"]
            /\ call' = [call EXCEPT ![t] = [IdleCall EXCEPT !.pm = m, !.key = key,
                                                            !.err = InvalidKey]]
       ELSE /\ pc' = [pc EXCEPT ![t] = "lock"]
            /\ call' = [call EXCEPT ![t] = [IdleCall EXCEPT !.pm = m, !.key = key]]
    /\ UNCHANGED <<program, last, pmap, digest, hashMu>>

\* partition.go:170
Lock(t) ==
    /\ pc[t] = "lock"
    /\ MutexFree(call[t].pm)
    /\ hashMu' = [hashMu EXCEPT ![call[t].pm] = TRUE]
    /\ pc' = [pc EXCEPT ![t] = "reset"]
    /\ UNCHANGED <<program, last, pmap, digest, call>>

\* partition.go:173
Reset(t) ==
    /\ pc[t] = "reset"
    /\ digest' = [digest EXCEPT ![RangeOf(t)] = <<>>]
    /\ pc' = [pc EXCEPT ![t] = "write"]
    /\ UNCHANGED <<program, last, pmap, hashMu, call>>

\* partition.go:174
Write(t) ==
    /\ pc[t] = "write"
    /\ digest' = [digest EXCEPT ![RangeOf(t)] = @ \o call[t].key]
    /\ pc' = [pc EXCEPT ![t] = "sum"]
    /\ UNCHANGED <<program, last, pmap, hashMu, call>>

\* partition.go:175-176
SumBytes(t) ==
    /\ pc[t] = "sum"
    /\ call' = [call EXCEPT ![t].hash = SetBytes(Sum(RangeOf(t), digest[RangeOf(t)]), 0)]
    /\ pc' = [pc EXCEPT ![t] = "unlock"]
    /\ UNCHANGED <<program, last, pmap, digest, hashMu>>

\* partition.go:171, 177: the deferred Unlock as keyHash returns
Unlock(t) ==
    /\ pc[t] = "unlock"
    /\ hashMu' = [hashMu EXCEPT ![call[t].pm] = FALSE]
    /\ pc' = [pc EXCEPT ![t] = "print"]
    /\ UNCHANGED <<program, last, pmap, digest, call>>

\* partition.go:165-166: the hash is printed and (nil, nil) returned
Return(t) ==
    /\ pc[t] = "print"
    /\ call' = [call EXCEPT ![t].printed = BigText(call[t].hash, 16),
                            ![t].part = NilPartition,
                            ![t].err = NoError]
    /\ pc' = [pc EXCEPT ![t] = "done"]
    /\ UNCHANGED <<program, last, pmap, digest, hashMu>>

---------------------------------------------------------------------------
(* Specification *)

\* the maps of the resolving program: one map, built over either hash range
OneMap ==
    {[m \in MapIds |-> IF m = "m1"
                       THEN NewPartitionMap(h, "key_store", <<"p">>, MaxSplits).pm
                       ELSE NilMap] : h \in HashIds}

\* two maps built by NewPartitionMap from the same HashRange instance
SharedMaps ==
    {[m \in MapIds |-> NewPartitionMap(h, "key_store", <<"p">>, MaxSplits).pm] :
        h \in HashIds}

Init ==
    /\ program \in Programs
    /\ last = [op |-> "none"]
    /\ pmap \in (IF program = "resolve" THEN OneMap ELSE {[m \in MapIds |-> NilMap]})
    /\ digest = [h \in HashIds |-> <<>>]
    /\ hashMu = [m \in MapIds |-> FALSE]
    /\ pc = [t \in Threads |-> "idle"]
    /\ call = [t \in Threads |-> IdleCall]

\* the calls of the drivers
NextCalls ==
    \/ \E p \in SourcePartitions, n \in NumSplits : CallSplit(p, n)
    \/ \E h \in HashIds, l \in Labels, n \in NumSplits :
            CallNewPartitionMap(h, "key_store", l, n)
    \/ \E p \in BoundedPartitions : CallMarshalJSON(p)
    \/ CallUnmarshalJSON

\* the steps of the goroutines resolving keys
NextResolve ==
    \/ \E t \in Threads, m \in MapIds, k \in Keys : ResolvePartition(t, m, k)
    \/ \E t \in Threads : Lock(t)
    \/ \E t \in Threads : Reset(t)
    \/ \E t \in Threads : Write(t)
    \/ \E t \in Threads : SumBytes(t)
    \/ \E t \in Threads : Unlock(t)
    \/ \E t \in Threads : Return(t)

Next == NextCalls \/ NextResolve

Spec == Init /\ [][Next]_vars

\* Inside keyHash every step is taken eventually; sync.Mutex hands the lock to a
\* goroutine that keeps waiting (starvation mode), hence strong fairness of Lock
Fairness ==
    \A t \in Threads :
        /\ SF_vars(Lock(t))
        /\ WF_vars(Reset(t) \/ Write(t) \/ SumBytes(t) \/ Unlock(t) \/ Return(t))

FairSpec == Spec /\ Fairness

\* the resolving program on two maps that share one HashRange instance
InitShared ==
    /\ program = "resolve"
    /\ last = [op |-> "none"]
    /\ pmap \in SharedMaps
    /\ digest = [h \in HashIds |-> <<>>]
    /\ hashMu = [m \in MapIds |-> FALSE]
    /\ pc = [t \in Threads |-> "idle"]
    /\ call = [t \in Threads |-> IdleCall]

SpecShared == InitShared /\ [][NextResolve]_vars

---------------------------------------------------------------------------
(* Properties *)

\* a label the validation rejects: empty, or nothing but spaces
Blank(label) == \A i \in 1..Len(label) : label[i] = " "

HasBounds(p) == ~IsNilPartition(p) /\ {"lowerBound", "upperBound"} \subseteq DOMAIN p

\* a valid source partition: lower < upper and a non-blank label
ValidSource(p) == HasBounds(p) /\ p.lowerBound < p.upperBound /\ ~Blank(p.label)

\* a call of Split on a valid source with a split count above one has returned
SplitDone == last.op = "Split" /\ ValidSource(last.p) /\ last.numSplits > 1

\* the decimal text of a split index below 100
DecimalDigits == <<"0", "1", "2", "3", "4", "5", "6", "7", "8", "9">>
IndexText(i) ==
    IF i < 10 THEN <<DecimalDigits[i + 1]>>
    ELSE <<DecimalDigits[(i \div 10) + 1], DecimalDigits[(i % 10) + 1]>>

\* C1: Split of a valid source into N > 1 parts returns exactly N partitions,
\* the first starting at the source's lower bound, the last ending at its upper
\* bound, each next one starting one above the upper bound of the one before.
C1_ExactCoverage ==
    SplitDone =>
        LET r == last.splits
            N == last.numSplits
        IN  /\ last.err = NoError /\ ~last.panicked
            /\ Len(r) = N
            /\ r[1].lowerBound = last.p.lowerBound
            /\ r[N].upperBound = last.p.upperBound
            /\ \A i \in 1..(N - 1) : r[i + 1].lowerBound = r[i].upperBound + 1

\* a split whose count does not divide the span has returned
C1_Witness ==
    /\ SplitDone
    /\ Len(last.splits) = last.numSplits
    /\ last.numSplits = 4
    /\ (last.p.upperBound - last.p.lowerBound) % last.numSplits = 3

\* C3: every partition Split returns is a valid interval, lower < upper, for
\* every valid source and every N > 1, spans below 2*N included.
C3_SplitsValid ==
    SplitDone =>
        \A i \in 1..Len(last.splits) :
            last.splits[i].lowerBound < last.splits[i].upperBound

\* the upper bound before partition i (1-based): the source's lower bound for the first
PrevUpper(i) ==
    IF i = 1 THEN last.p.lowerBound ELSE last.splits[i - 1].upperBound

\* C4: with span = upper - lower, step = span div N and r = span mod N, the
\* upper bound advances by step + 1 for the first r partitions and by step for
\* the other N - r; [0,255] in 4 parts is [0,64], [65,128], [129,192], [193,255].
C4_RemainderDistribution ==
    SplitDone =>
        LET N == last.numSplits
            span == last.p.upperBound - last.p.lowerBound
            step == span \div N
            r == span % N
        IN  /\ Len(last.splits) = N
            /\ \A i \in 1..N :
                    last.splits[i].upperBound - PrevUpper(i)
                        = IF i <= r THEN step + 1 ELSE step
            /\ (last.p = ExampleSource /\ N = 4) =>
                    [i \in 1..4 |-> <<last.splits[i].lowerBound, last.splits[i].upperBound>>]
                        = << <<0, 64>>, <<65, 128>>, <<129, 192>>, <<193, 255>> >>

\* the 4-way split of [0, 255] has returned
C4_Witness ==
    /\ SplitDone
    /\ last.p = ExampleSource
    /\ last.numSplits = 4
    /\ Len(last.splits) = 4

\* a call of NewPartitionMap has returned a map
MapBuilt == last.op = "NewPartitionMap" /\ ~IsNilMap(last.pm)

\* C5: after NewPartitionMap succeeds the stored partitions are in split index
\* order with ascending lower bounds, pairwise non-overlapping, and every value
\* of the hash range lies in exactly one of them.
C5_SortedCover ==
    MapBuilt =>
        LET P == last.pm.Partitions
            root == [label |-> last.partLabelPrefix, lowerBound |-> LowerBound(last.h),
                     upperBound |-> UpperBound(last.h)]
        IN  /\ Len(P) = last.numSplits
            /\ \A i \in 1..Len(P) : P[i].label = last.partLabelPrefix \o <<"-">> \o IndexText(i - 1)
            /\ \A i \in 1..Len(P) :
                    P[i].lowerBound = IF i = 1 THEN root.lowerBound ELSE P[i - 1].upperBound + 1
            /\ \A i, j \in 1..Len(P) : i < j => P[i].lowerBound <= P[j].lowerBound
            /\ \A i, j \in 1..Len(P) : i < j => P[i].upperBound < P[j].lowerBound
            /\ \A v \in root.lowerBound..root.upperBound :
                    Cardinality({i \in 1..Len(P) :
                                    P[i].lowerBound <= v /\ v <= P[i].upperBound}) = 1

\* a map of at least three partitions over the SHA256 range has been built
C5_Witness ==
    MapBuilt /\ last.h = "sha256" /\ Len(last.pm.Partitions) >= 3

\* the labels of the partitions parts carry the prefix and their index, all distinct
LabelsIndexed(parts, prefix) ==
    /\ \A i \in 1..Len(parts) : parts[i].label = prefix \o <<"-">> \o IndexText(i - 1)
    /\ \A i, j \in 1..Len(parts) : i # j => parts[i].label # parts[j].label

\* C6: partition i of a successful split carries the label "<source.label>-<i>",
\* the N labels are pairwise distinct, and the label index NewPartitionMap builds
\* has exactly N entries, each mapping a label to the partition carrying it.
C6_Labels ==
    /\ (SplitDone /\ last.err = NoError) =>
            /\ Len(last.splits) = last.numSplits
            /\ LabelsIndexed(last.splits, last.p.label)
    /\ MapBuilt =>
            LET P == last.pm.Partitions
                keyMap == last.pm.keyMap
            IN  /\ Len(P) = last.numSplits
                /\ LabelsIndexed(P, last.partLabelPrefix)
                /\ Cardinality(DOMAIN keyMap) = last.numSplits
                /\ \A l \in DOMAIN keyMap :
                        keyMap[l].label = l /\ \E i \in 1..Len(P) : P[i] = keyMap[l]

\* a map of several partitions has been built with its label index
C6_Witness ==
    MapBuilt /\ last.numSplits >= 3 /\ Cardinality(DOMAIN last.pm.keyMap) >= 3

\* what a rejected call has returned
C7_Rejected ==
    /\ (last.op = "Split" /\ IsNilPartition(last.p)) =>
            last.err = PartitionNilError /\ last.splits = <<>>
    /\ (last.op = "Split" /\ ~IsNilPartition(last.p) /\ last.numSplits <= 1) =>
            last.err = InvalidNumSplits /\ last.splits = <<>>
    /\ (last.op = "Split" /\ HasBounds(last.p) /\ last.numSplits > 1
            /\ (last.p.lowerBound >= last.p.upperBound \/ Blank(last.p.label))) =>
            last.err.type = "InvalidPartitionError" /\ last.splits = <<>>
    /\ \A t \in Threads :
            (pc[t] = "done" /\ Len(call[t].key) = 0) =>
                call[t].err = InvalidKey /\ call[t].part = NilPartition

\* the step of goroutine t in which ResolvePartition returns for an empty key
\* leaves the digests and the mutexes as they were
C7_DigestUntouched ==
    \A t \in Threads :
        (/\ pc'[t] = "done"
         /\ Len(call'[t].key) = 0
         /\ <<pc[t], call[t]>> # <<pc'[t], call'[t]>>)
        => (digest' = digest /\ hashMu' = hashMu)

C8_ErrorPropagation ==
    last.op = "NewPartitionMap" =>
        LET root == [label |-> last.partLabelPrefix, lowerBound |-> LowerBound(last.h),
                     upperBound |-> UpperBound(last.h)]
        IN  /\ last.numSplits <= 1 =>
                    IsNilMap(last.pm) /\ last.err = InvalidNumSplits
            /\ (last.numSplits > 1 /\ Blank(last.partLabelPrefix)) =>
                    /\ IsNilMap(last.pm)
                    /\ last.err = invalidPartition("partition label can be whitespaces/empty")
            /\ last.err = Split(root, last.numSplits).err
            /\ IsNilMap(last.pm) <=> last.err # NoError
            /\ ~IsNilMap(last.pm) => Len(last.pm.Partitions) = last.numSplits

\* NewPartitionMap has returned the splitter's error for a blank prefix
C8_Witness ==
    /\ last.op = "NewPartitionMap"
    /\ last.numSplits > 1
    /\ last.partLabelPrefix = <<" ">>
    /\ last.err.type = "InvalidPartitionError"
    /\ IsNilMap(last.pm)

\* the digest of key alone under hash range h, as an integer
DigestOf(h, key) == SetBytes(Sum(h, key), 0)

\* C2: ResolvePartition of a non-empty key on a built map returns a partition
\* (not nil) whose bounds contain the digest of the key.
C2_ResolveContains ==
    \A t \in Threads :
        (pc[t] = "done" /\ Len(call[t].key) > 0) =>
            /\ ~IsNilPartition(call[t].part)
            /\ call[t].part.lowerBound <= DigestOf(RangeOf(t), call[t].key)
            /\ DigestOf(RangeOf(t), call[t].key) <= call[t].part.upperBound

\* goroutine t is between Lock and Unlock of keyHash
InKeyHash(t) == pc[t] \in {"reset", "write", "sum", "unlock"}

C9_Exclusive ==
    /\ \A m \in MapIds :
            /\ Cardinality({t \in Threads : InKeyHash(t) /\ call[t].pm = m}) <= 1
            /\ hashMu[m] <=> \E t \in Threads : InKeyHash(t) /\ call[t].pm = m
    /\ \A t \in Threads :
            (pc[t] \in {"unlock", "print", "done"} /\ Len(call[t].key) > 0) =>
                call[t].hash = DigestOf(RangeOf(t), call[t].key)

\* C9: of the goroutines resolving on one map at most one at a time is inside
\* Reset, Write, Sum and the copy-out, so each value is the digest of the call's
\* own key; the lock is released on the way out, and every caller waiting for
\* the lock eventually has its value.
C9_Serialized ==
    /\ []C9_Exclusive
    /\ \A t \in Threads : (pc[t] = "lock") ~> (pc[t] = "done")

\* one goroutine waits for the lock while another has written a different key
C9_Witness ==
    /\ pc[1] = "sum"
    /\ pc[2] = "lock"
    /\ call[1].pm = call[2].pm
    /\ call[1].key # call[2].key

\* C10: UnmarshalJSON of the bytes MarshalJSON produced for a partition with
\* non-negative bounds succeeds, with the same label and the same bounds.
C10_RoundTrip ==
    (/\ last.op = "UnmarshalJSON"
     /\ last.p.lowerBound >= 0
     /\ last.p.upperBound >= 0) =>
        /\ last.err = NoError
        /\ last.q = last.p

\* goroutine t has Reset the digest of its map's hash range and not yet taken its Sum
InDigestSequence(t) == pc[t] \in {"write", "sum"}

\* C11: the digest is guarded by one lock per HashRange instance: when two maps
\* are built from the same HashRange instance and ResolvePartition runs on both
\* concurrently, their Reset, Write, Sum sequences on the shared digest never
\* interleave, so each value is the digest of the call's own key.
C11_SharedDigestSerialized ==
    /\ \A t, u \in Threads :
            (/\ t # u
             /\ InDigestSequence(t)
             /\ InDigestSequence(u)
             /\ call[t].pm # call[u].pm)
            => RangeOf(t) # RangeOf(u)
    /\ \A t \in Threads :
            (pc[t] \in {"unlock", "print", "done"} /\ Len(call[t].key) > 0) =>
                call[t].hash = DigestOf(RangeOf(t), call[t].key)

====
